---- MODULE Spec2Model ----
(***************************************************************************)
(* Ticket evaluation pipeline of the streamlit dashboard: the sync paths   *)
(* that write the ticket_evaluations table (TicketDatabase in database.py, *)
(* simple_sync.py, sync_grouped_evaluations.py) and the table itself.      *)
(*                                                                         *)
(* Representation                                                          *)
(*  - an experiment label is the sequence of its '-'-separated segments,   *)
(*    so "zendesk-evaluation-2025-08-14-a1" is                             *)
(*    <<"zendesk","evaluation","2025","08","14","a1">>; prefix tests, the  *)
(*    date regular expression and str.split('-') act on the segments;      *)
(*  - a date string YYYY-MM-DD is the triple of its segments;              *)
(*  - a timestamp is a natural number, NoTime standing for None / NULL     *)
(*    (run start times are naive datetimes of one format, for which the    *)
(*    TEXT order of SQLite's MAX and datetime order agree);                *)
(*  - Null is Python's None / SQL NULL for text values;                    *)
(*  - the table is the bag of its rows without the surrogate columns id    *)
(*    and created_at, which no statement of the program reads.             *)
(***************************************************************************)
EXTENDS Integers, Sequences, FiniteSets, Bags, TLC

VARIABLES
    table,      \* committed content of ticket_evaluations (a bag of rows)
    runs,       \* the batch returned by client.list_runs for the current call
    phase,      \* where the current operation stands
    prevTable,  \* the table as it was when the current call started
    ret,        \* value returned by the last call
    txn,        \* uncommitted image of the table inside store_evaluations
    todo,       \* winners store_evaluations has still to insert
    attempt,    \* 1 for the first sync of a batch, 2 for its re-run
    wpc,        \* per concurrent writer: its position
    wruns,      \* per concurrent writer: its batch
    wlatest,    \* per concurrent writer: the latest_timestamp it read
    df,         \* rows process_dataframe has still to visit
    daily_data, \* the per-day aggregates process_dataframe builds
    evaluationsTable,   \* EvaluationDatabase: content of the evaluations table
    latest_experiments  \* EvaluationDatabase: content of latest_experiments

vars == <<table, runs, phase, prevTable, ret, txn, todo, attempt, wpc, wruns, wlatest,
          df, daily_data, evaluationsTable, latest_experiments>>

----------------------------------------------------------------------------
(* Values *)

Null == "NULL"
NoTime == 0
NoTicket == 0
NoDate == <<>>
NoLabel == <<>>
EVALUATOR == "detailed_similarity_evaluator"

\* Bounds of the model.
MaxBatch == 2
MaxBatchOne == 3
MaxTime == 2
NumTickets == 2

----------------------------------------------------------------------------
(* Text helpers: the numeric segments that occur in labels. *)

D4 == {"2025", "2024"}
D2 == {"07", "08", "13", "14", "15", "20", "45"}

SegNum(s) ==
    CASE s = "2025" -> 2025
      [] s = "2024" -> 2024
      [] s = "07" -> 7
      [] s = "08" -> 8
      [] s = "13" -> 13
      [] s = "14" -> 14
      [] s = "15" -> 15
      [] s = "20" -> 20
      [] s = "45" -> 45
      [] OTHER -> 0

\* p occurs in e followed by '-': the Python test  "<p>-" in e
ContainsAt(e, p, i) ==
    /\ i + Len(p) <= Len(e)
    /\ SubSeq(e, i, i + Len(p) - 1) = p

Contains(e, p) == \E i \in 1..Len(e) : ContainsAt(e, p, i)

\* re.search(r"<p>-(\d{4}-\d{2}-\d{2})", e): the first place it matches, 0 if none
DateMatchAt(e, p, i) ==
    /\ ContainsAt(e, p, i)
    /\ i + Len(p) + 2 <= Len(e)
    /\ e[i + Len(p)] \in D4
    /\ e[i + Len(p) + 1] \in D2
    /\ e[i + Len(p) + 2] \in D2

SearchDate(e, p) ==
    LET hits == {i \in 1..Len(e) : DateMatchAt(e, p, i)}
    IN  IF hits = {} THEN NoDate
        ELSE LET i == CHOOSE k \in hits : \A j \in hits : k <= j
             IN  <<e[i + Len(p)], e[i + Len(p) + 1], e[i + Len(p) + 2]>>

ZENDESK == <<"zendesk", "evaluation">>
IMPLEMENTATION == <<"implementation", "evaluation">>
HOMEOWNER_PAY == <<"homeowner", "pay", "evaluation">>
MANAGEMENT_PAY == <<"management", "pay", "evaluation">>

\* experiment.startswith("zendesk-evaluation-2025-")
StartsZendesk2025(e) ==
    /\ Len(e) >= 4
    /\ SubSeq(e, 1, 3) = ZENDESK \o <<"2025">>

extract_date_from_experiment(experiment) ==
    IF StartsZendesk2025(experiment) THEN SearchDate(experiment, ZENDESK)
    ELSE IF Contains(experiment, IMPLEMENTATION) THEN SearchDate(experiment, IMPLEMENTATION)
    ELSE IF Contains(experiment, HOMEOWNER_PAY) THEN SearchDate(experiment, HOMEOWNER_PAY)
    ELSE IF Contains(experiment, MANAGEMENT_PAY) THEN SearchDate(experiment, MANAGEMENT_PAY)
    ELSE NoDate

----------------------------------------------------------------------------
(* Dates: datetime.strptime(date_str, "%Y-%m-%d") and the cutoff. *)

CUTOFF_YEAR == 2025
CUTOFF_MONTH == 8
CUTOFF_DAY == 15

IsLeap(y) == (y % 4 = 0 /\ y % 100 # 0) \/ y % 400 = 0

DaysIn(y, m) ==
    IF m \in {4, 6, 9, 11} THEN 30
    ELSE IF m = 2 THEN (IF IsLeap(y) THEN 29 ELSE 28)
    ELSE 31

\* strptime raises ValueError on anything else
ValidDate(d) ==
    /\ SegNum(d[1]) >= 1
    /\ SegNum(d[2]) \in 1..12
    /\ SegNum(d[3]) \in 1..DaysIn(SegNum(d[1]), SegNum(d[2]))

\* date_dt <= cutoff_date, the comparison one day off
BeforeOrAtCutoff(d) ==
    \/ SegNum(d[1]) < CUTOFF_YEAR
    \/ SegNum(d[1]) = CUTOFF_YEAR /\ SegNum(d[2]) < CUTOFF_MONTH
    \/ SegNum(d[1]) = CUTOFF_YEAR /\ SegNum(d[2]) = CUTOFF_MONTH /\ SegNum(d[3]) <= CUTOFF_DAY

BeforeCutoff(d) ==
    \/ SegNum(d[1]) < CUTOFF_YEAR
    \/ SegNum(d[1]) = CUTOFF_YEAR /\ SegNum(d[2]) < CUTOFF_MONTH
    \/ SegNum(d[1]) = CUTOFF_YEAR /\ SegNum(d[2]) = CUTOFF_MONTH /\ SegNum(d[3]) < CUTOFF_DAY

----------------------------------------------------------------------------
(* Comments and evaluation keys: the substring tests of the program over   *)
(* the texts that occur in the model.                                      *)

Comments == {Null, "", "fine", "empty_bot_answer", "management_company_ticket",
             "empty_human_answer", "Sent to Management office"}

\* "management" in comment.lower()
LowerHasManagement(comment) ==
    comment \in {"management_company_ticket", "Sent to Management office"}

\* "management_ticket_evaluation" in evaluation_key
KeyHasManagement(evaluation_key) == evaluation_key = "management_ticket_evaluation"

\* Results of a step that may raise: [raised |-> TRUE] or [raised |-> FALSE, val |-> v]
Raise == [raised |-> TRUE, val |-> Null]
Return(v) == [raised |-> FALSE, val |-> v]

determine_ticket_type_ungrouped(evaluation_key, comment) ==
    IF evaluation_key = Null THEN Raise                    \* "..." in None: TypeError
    ELSE IF KeyHasManagement(evaluation_key) THEN Return("management")
    ELSE IF comment = Null THEN Raise                      \* None.lower(): AttributeError
    ELSE IF LowerHasManagement(comment) THEN Return("management")
    ELSE Return("homeowner")

determine_ticket_type_grouped(experiment) ==
    IF Contains(experiment, IMPLEMENTATION) THEN "implementation"
    ELSE IF Contains(experiment, HOMEOWNER_PAY) THEN "homeowner"
    ELSE IF Contains(experiment, MANAGEMENT_PAY) THEN "management"
    ELSE "homeowner"

determine_ticket_type(date_str, experiment, evaluation_key, comment) ==
    IF ~ValidDate(date_str) THEN Raise                     \* strptime: ValueError
    ELSE IF BeforeCutoff(date_str)
         THEN determine_ticket_type_ungrouped(evaluation_key, comment)
         ELSE Return(determine_ticket_type_grouped(experiment))

----------------------------------------------------------------------------
(* Runs.  inputs is one of the shapes extract_ticket_id probes:            *)
(*   "top"   inputs has the key ticket_id (in_tid, possibly None)          *)
(*   "x"     inputs.x is a mapping (in_tid is its ticket_id, or absent)    *)
(*   "run"   inputs.run.inputs.x is a mapping (in_tid likewise)            *)
(*   "runbare" inputs.run is a mapping without inputs.x                    *)
(*   "none"  inputs is empty or no mapping                                 *)
(* outputs is "dict", "json" (a string holding an object), "jsonlist" (a   *)
(* string holding JSON that is no object), "badjson" (a string json.loads  *)
(* rejects), "other" (another truthy value) or "none".                     *)

extract_ticket_id(run) ==
    IF run.in_shape = "top" THEN run.in_tid
    ELSE IF run.in_shape = "x" THEN run.in_tid
    ELSE IF run.in_shape = "run" THEN run.in_tid
    ELSE run.out_tid

----------------------------------------------------------------------------
(* The table. *)

Row(date, ticket_id, ticket_type, quality, comment, evaluation_key, experiment, start_time) ==
    [date |-> date, ticket_id |-> ticket_id, ticket_type |-> ticket_type,
     quality |-> quality, comment |-> comment, evaluation_key |-> evaluation_key,
     experiment_name |-> experiment, start_time |-> start_time]

Rows(t) == BagToSet(t)

SameKey(r1, r2) == r1.date = r2.date /\ r1.ticket_id = r2.ticket_id

\* A plain INSERT into a table without the UNIQUE constraint: the new row is
\* added and the rows of its key stay.
InsertNoReplace(t, row) == t (+) SetToBag({row})

\* INSERT OR REPLACE under a UNIQUE constraint on the date alone: every row
\* of the date is deleted, then the new row is inserted.
InsertOrReplaceByDate(t, row) ==
    LET kept == {r \in Rows(t) : r.date # row.date}
    IN  [r \in kept |-> t[r]] (+) SetToBag({row})

\* INSERT OR REPLACE under UNIQUE(date, ticket_id): the rows in conflict are
\* deleted, then the new row is inserted.
InsertOrReplace(t, row) ==
    LET kept == {r \in Rows(t) : ~SameKey(r, row)}
    IN  [r \in kept |-> t[r]] (+) SetToBag({row})

Max(S) == CHOOSE x \in S : \A y \in S : y <= x

\* SELECT MAX(start_time): NULLs are ignored, None when nothing is left
get_latest_timestamp(t) ==
    LET times == {r.start_time : r \in Rows(t)} \ {NoTime}
    IN  IF times = {} THEN NoTime ELSE Max(times)

----------------------------------------------------------------------------
(* TicketDatabase.fetch_and_store_latest_data *)

\* One pass of the loop body up to the dedup: "skip" (continue), "raise" (an
\* exception leaves the loop) or "cand" (a candidate for latest_runs).
\* A continue that raises instead.
SkipAsRaise == [tag |-> "raise", row |-> Null]

Skip == [tag |-> "skip", row |-> Null]
Raised == [tag |-> "raise", row |-> Null]
Cand(row) == [tag |-> "cand", row |-> row]

ClassifyRun(run, latest_timestamp) ==
    LET date_str == extract_date_from_experiment(run.experiment)
        ticket_id == extract_ticket_id(run)
        ticket_type == determine_ticket_type(date_str, run.experiment, run.key, run.comment)
    IN  IF run.experiment = NoLabel THEN Skip
        ELSE IF date_str = NoDate THEN Skip
        ELSE IF run.name # EVALUATOR \/ run.outputs = "none" THEN Skip
        ELSE IF run.outputs \in {"badjson", "other"} THEN Skip
        ELSE IF run.outputs = "jsonlist" THEN Raised        \* list.get: AttributeError
        ELSE IF ticket_id = NoTicket THEN Skip
        ELSE IF ticket_type.raised THEN Raised
        ELSE IF run.start_time # NoTime /\ latest_timestamp # NoTime
                /\ run.start_time <= latest_timestamp THEN Skip
        ELSE Cand(Row(date_str, ticket_id, ticket_type.val, run.quality, run.comment,
                      run.key, run.experiment, run.start_time))

\* latest_runs is a dict: a sequence of rows in insertion order, one per key.
KeyIndex(latest_runs, row) ==
    LET hits == {i \in 1..Len(latest_runs) : SameKey(latest_runs[i], row)}
    IN  IF hits = {} THEN 0 ELSE CHOOSE i \in hits : TRUE

\* key not in latest_runs or start_time_dt > latest_runs[key][0]
KeepLatest(acc, row) ==
    LET i == KeyIndex(acc.val, row)
    IN  IF i = 0 THEN Return(Append(acc.val, row))
        ELSE IF row.start_time = NoTime \/ acc.val[i].start_time = NoTime
             THEN Raise                                     \* None > x: TypeError
        ELSE IF row.start_time > acc.val[i].start_time
             THEN Return([acc.val EXCEPT ![i] = row])
        ELSE acc

RECURSIVE CollectLatest(_, _, _)
CollectLatest(batch, latest_timestamp, acc) ==
    IF acc.raised \/ batch = <<>> THEN acc
    ELSE LET c == ClassifyRun(Head(batch), latest_timestamp)
         IN  CollectLatest(Tail(batch), latest_timestamp,
                 IF c.tag = "skip" THEN acc
                 ELSE IF c.tag = "raise" THEN Raise
                 ELSE KeepLatest(acc, c.row))

RECURSIVE store_evaluations(_, _)
store_evaluations(t, evaluations) ==
    IF evaluations = <<>> THEN t
    ELSE store_evaluations(InsertOrReplace(t, Head(evaluations)), Tail(evaluations))

\* The whole call: the table it leaves and the value it returns.
fetch_and_store_latest_data(t, batch) ==
    LET latest_runs == CollectLatest(batch, get_latest_timestamp(t), Return(<<>>))
    IN  IF latest_runs.raised THEN [raised |-> TRUE, table |-> t, ret |-> 0]
        ELSE [raised |-> FALSE,
              table |-> store_evaluations(t, latest_runs.val),
              ret |-> Len(latest_runs.val)]

----------------------------------------------------------------------------
(* The runs the upstream service may return. *)

Tickets == 1..NumTickets
Times == 0..MaxTime

LabelPre == <<"zendesk", "evaluation", "2025", "08", "14", "a1">>
LabelPost == <<"implementation", "evaluation", "2025", "08", "15", "b2">>

BaseRun(ticket_id, start_time, quality) ==
    [experiment |-> LabelPost, name |-> EVALUATOR, outputs |-> "dict",
     quality |-> quality, comment |-> "fine", key |-> "bot_evaluation",
     in_shape |-> "x", in_tid |-> ticket_id, out_tid |-> NoTicket,
     start_time |-> start_time]

\* Well-formed runs: every ticket at every start time (None included), and a
\* second evaluation result for ticket 1.
PoolTimed ==
    {BaseRun(k, t, "high_quality") : k \in Tickets, t \in Times}
        \cup {BaseRun(1, t, "low_quality") : t \in Times}

RECURSIVE SeqsUpTo(_, _)
SeqsUpTo(S, n) ==
    IF n = 0 THEN {<<>>}
    ELSE LET shorter == SeqsUpTo(S, n - 1)
         IN  shorter \cup {Append(s, x) : s \in {q \in shorter : Len(q) = n - 1}, x \in S}

----------------------------------------------------------------------------
(* Spec: successive calls of fetch_and_store_latest_data, each followed   *)
(* or not by a second call over the same batch.                            *)

Writers == {1, 2}

Idle ==
    /\ txn = EmptyBag /\ todo = <<>> /\ attempt = 1
    /\ wpc = [w \in Writers |-> "idle"]
    /\ wruns = [w \in Writers |-> <<>>]
    /\ wlatest = [w \in Writers |-> NoTime]
    /\ df = <<>>
    /\ daily_data = <<>>
    /\ evaluationsTable = EmptyBag
    /\ latest_experiments = EmptyBag

Init ==
    /\ table = EmptyBag
    /\ runs = <<>>
    /\ phase = "fetching"
    /\ prevTable = EmptyBag
    /\ ret = 0
    /\ Idle

\* client.list_runs yields one more run
UpstreamYield(pool, limit) ==
    /\ phase = "fetching"
    /\ attempt = 1
    /\ Len(runs) < limit
    /\ \E r \in pool : runs' = Append(runs, r)
    /\ UNCHANGED <<table, phase, prevTable, ret, txn, todo, attempt, wpc, wruns, wlatest>>
    /\ UNCHANGED <<df, daily_data, evaluationsTable, latest_experiments>>

Fetch ==
    /\ phase = "fetching"
    /\ LET out == fetch_and_store_latest_data(table, runs)
       IN  /\ table' = out.table
           /\ ret' = out.ret
    /\ prevTable' = table
    /\ phase' = "synced"
    /\ UNCHANGED <<runs, txn, todo, attempt, wpc, wruns, wlatest>>
    /\ UNCHANGED <<df, daily_data, evaluationsTable, latest_experiments>>

Refetch ==
    /\ phase = "synced"
    /\ LET out == fetch_and_store_latest_data(table, runs)
       IN  /\ table' = out.table
           /\ ret' = out.ret
    /\ prevTable' = table
    /\ phase' = "resynced"
    /\ UNCHANGED <<runs, txn, todo, attempt, wpc, wruns, wlatest>>
    /\ UNCHANGED <<df, daily_data, evaluationsTable, latest_experiments>>

NextCall ==
    /\ phase \in {"synced", "resynced"}
    /\ phase' = "fetching"
    /\ runs' = <<>>
    /\ UNCHANGED <<table, prevTable, ret, txn, todo, attempt, wpc, wruns, wlatest>>
    /\ UNCHANGED <<df, daily_data, evaluationsTable, latest_experiments>>

Next ==
    \/ UpstreamYield(PoolTimed, MaxBatch)
    \/ Fetch
    \/ Refetch
    \/ NextCall

Spec == Init /\ [][Next]_vars

----------------------------------------------------------------------------
(* Properties of fetch_and_store_latest_data stated under Spec *)

\* What the pipeline would make of a run on an empty store: the row it is a
\* candidate for, if it is eligible.
Eligible(run) == ClassifyRun(run, NoTime).tag = "cand"
RowOf(run) == ClassifyRun(run, NoTime).row

CallRaised == fetch_and_store_latest_data(prevTable, runs).raised

\* C2: a second call of fetch_and_store_latest_data over the same batch leaves
\* the stored records (all eight columns) as the first call left them.
C2_Idempotent ==
    phase = "resynced" => table = prevTable

\* C4: no call replaces a stored row by a run whose start_time is earlier
\* than the stored one, or absent.
C4_NeverRegress ==
    [][\A r \in Rows(table) : \A s \in Rows(table') :
          (SameKey(r, s) /\ s # r) =>
              (s.start_time # NoTime /\ s.start_time >= r.start_time)]_vars

\* C27: no call of fetch_and_store_latest_data lowers the value returned by
\* get_latest_timestamp.
C27_SeedMonotonic ==
    [][get_latest_timestamp(table') >= get_latest_timestamp(table)]_vars

\* C5: the guard is per key. After a call that completed, every eligible run
\* whose key had no row before the call has a row for its key, and an eligible
\* run whose key had a row with a start_time is skipped exactly when its own
\* start_time is not strictly newer than that one.
StoredTime(t, row) ==
    LET same == {r \in Rows(t) : SameKey(r, row)}
    IN  IF same = {} THEN NoTime ELSE (CHOOSE r \in same : TRUE).start_time

C5_GuardPerKey ==
    (phase = "synced" /\ ~CallRaised) =>
        \A i \in 1..Len(runs) :
            Eligible(runs[i]) =>
                (ClassifyRun(runs[i], get_latest_timestamp(prevTable)).tag = "skip"
                    <=> (/\ runs[i].start_time # NoTime
                         /\ StoredTime(prevTable, RowOf(runs[i])) # NoTime
                         /\ runs[i].start_time <= StoredTime(prevTable, RowOf(runs[i]))))

\* C7: within one key of a batch, a run without start_time loses to any run
\* that has one; if all lack it the first is kept; the batch completes and the
\* winner is stored.
RECURSIVE ExpectedWinner(_, _)
ExpectedWinner(group, best) ==
    IF group = <<>> THEN best
    ELSE LET r == Head(group)
         IN  ExpectedWinner(Tail(group),
                 IF best.start_time = NoTime /\ r.start_time # NoTime THEN r
                 ELSE IF r.start_time # NoTime /\ r.start_time > best.start_time THEN r
                 ELSE best)

GroupOf(batch, row) ==
    SelectSeq(batch, LAMBDA r : Eligible(r) /\ SameKey(RowOf(r), row))

C7_MissingTimestampLoses ==
    (phase = "synced" /\ prevTable = EmptyBag) =>
        \A i \in 1..Len(runs) :
            Eligible(runs[i]) =>
                LET group == GroupOf(runs, RowOf(runs[i]))
                IN  RowOf(ExpectedWinner(Tail(group), Head(group))) \in Rows(table)

----------------------------------------------------------------------------
(* SpecBatch: one call of fetch_and_store_latest_data on an empty store,   *)
(* over batches that also hold malformed runs.                             *)

LabelOther == <<"weekly", "report", "2025", "08", "15">>
LabelBadDate == <<"zendesk", "evaluation", "2025", "13", "45", "a1">>

Malformed ==
    LET base == BaseRun(NumTickets, 1, "high_quality")
    IN  { [base EXCEPT !.outputs = "badjson"],
          [base EXCEPT !.in_shape = "none", !.in_tid = NoTicket],
          [base EXCEPT !.experiment = LabelOther],
          [base EXCEPT !.experiment = LabelBadDate],
          [base EXCEPT !.experiment = LabelPre, !.comment = Null] }

PoolBatch == {BaseRun(k, t, "high_quality") : k \in Tickets, t \in Times} \cup Malformed

NextBatch ==
    \/ UpstreamYield(PoolBatch, MaxBatchOne)
    \/ Fetch

SpecBatch == Init /\ [][NextBatch]_vars

\* C3: on an empty store, of the eligible runs of a batch that share a key the
\* one with the greatest start_time is the stored row, wherever it stands in
\* the batch.
C3_LaterWins ==
    (phase = "synced" /\ prevTable = EmptyBag) =>
        \A i, j \in 1..Len(runs) :
            (/\ Eligible(runs[i]) /\ Eligible(runs[j])
             /\ SameKey(RowOf(runs[i]), RowOf(runs[j]))
             /\ runs[i].start_time # NoTime
             /\ runs[i].start_time < runs[j].start_time
             /\ \A k \in 1..Len(runs) :
                    (Eligible(runs[k]) /\ SameKey(RowOf(runs[k]), RowOf(runs[j])))
                        => runs[k].start_time <= runs[j].start_time)
                => RowOf(runs[j]) \in Rows(table)

\* C8: a malformed run is dropped on its own: every eligible run of the batch
\* is stored (the eligible runs having distinct keys).
DistinctKeys(batch) ==
    \A i, j \in 1..Len(batch) :
        (i # j /\ Eligible(batch[i]) /\ Eligible(batch[j]))
            => ~SameKey(RowOf(batch[i]), RowOf(batch[j]))

C8_MalformedDroppedAlone ==
    (phase = "synced" /\ prevTable = EmptyBag /\ DistinctKeys(runs)) =>
        \A i \in 1..Len(runs) :
            Eligible(runs[i]) => RowOf(runs[i]) \in Rows(table)

----------------------------------------------------------------------------
(* SpecConc: two invocations of fetch_and_store_latest_data on one store.  *)
(* Each reads the latest timestamp (database.py 67-68), builds its winners *)
(* and writes them in one transaction (127-131); SQLite serialises the     *)
(* write transactions, nothing orders a read against the other's write.    *)

PoolConc == {BaseRun(1, t, q) : t \in 1..MaxTime, q \in {"high_quality", "low_quality"}}

SeedTables(pool) ==
    {fetch_and_store_latest_data(EmptyBag, b).table : b \in SeqsUpTo(pool, 1)}

InitConc ==
    /\ table \in SeedTables(PoolConc)
    /\ prevTable = table
    /\ runs = <<>>
    /\ phase = "concurrent"
    /\ ret = 0
    /\ txn = EmptyBag /\ todo = <<>> /\ attempt = 1
    /\ wpc = [w \in Writers |-> "start"]
    /\ wruns \in [Writers -> SeqsUpTo(PoolConc, MaxBatch)]
    /\ wlatest = [w \in Writers |-> NoTime]
    /\ df = <<>>
    /\ daily_data = <<>>
    /\ evaluationsTable = EmptyBag
    /\ latest_experiments = EmptyBag

WriterRead(w) ==
    /\ wpc[w] = "start"
    /\ wlatest' = [wlatest EXCEPT ![w] = get_latest_timestamp(table)]
    /\ wpc' = [wpc EXCEPT ![w] = "read"]
    /\ UNCHANGED <<table, runs, phase, prevTable, ret, txn, todo, attempt, wruns>>
    /\ UNCHANGED <<df, daily_data, evaluationsTable, latest_experiments>>

WriterStore(w) ==
    /\ wpc[w] = "read"
    /\ LET latest_runs == CollectLatest(wruns[w], wlatest[w], Return(<<>>))
       IN  table' = IF latest_runs.raised THEN table
                    ELSE store_evaluations(table, latest_runs.val)
    /\ wpc' = [wpc EXCEPT ![w] = "done"]
    /\ UNCHANGED <<runs, phase, prevTable, ret, txn, todo, attempt, wruns, wlatest>>
    /\ UNCHANGED <<df, daily_data, evaluationsTable, latest_experiments>>

NextConc == \E w \in Writers : WriterRead(w) \/ WriterStore(w)

SpecConc == InitConc /\ [][NextConc]_vars

\* C6: when both writers are done, the row of each key carries the greatest
\* start_time among the prior store and the eligible runs of both batches.
Offered ==
    Rows(prevTable) \cup
        UNION {{RowOf(wruns[w][i]) : i \in 1..Len(wruns[w])} : w \in Writers}

C6_ConcurrentWritersSafe ==
    (\A w \in Writers : wpc[w] = "done") =>
        \A c \in Offered :
            \E r \in Rows(table) : SameKey(r, c) /\ r.start_time >= c.start_time

----------------------------------------------------------------------------
(* SpecStep: fetch_and_store_latest_data statement by statement, with a    *)
(* failing INSERT and a killed process.  store_evaluations opens one       *)
(* connection, executes its INSERTs inside one implicit transaction and    *)
(* commits once (database.py 228-239); whatever ends the call before the   *)
(* commit leaves the table as it was.                                      *)

InitStep ==
    /\ table \in SeedTables(PoolTimed)
    /\ prevTable = table
    /\ runs = <<>>
    /\ phase = "fetching"
    /\ ret = 0
    /\ Idle

\* lines 67-131 up to the call of store_evaluations
Collect ==
    /\ phase = "fetching"
    /\ LET latest_runs == CollectLatest(runs, get_latest_timestamp(table), Return(<<>>))
       IN  IF latest_runs.raised \/ latest_runs.val = <<>>
           THEN /\ phase' = "returned"
                /\ ret' = 0
                /\ UNCHANGED <<txn, todo>>
           ELSE /\ phase' = "storing"
                /\ txn' = table
                /\ todo' = latest_runs.val
                /\ ret' = Len(latest_runs.val)
    /\ UNCHANGED <<table, runs, prevTable, attempt, wpc, wruns, wlatest>>
    /\ UNCHANGED <<df, daily_data, evaluationsTable, latest_experiments>>

\* one cursor.execute of the loop of store_evaluations
InsertOk ==
    /\ phase = "storing"
    /\ todo # <<>>
    /\ txn' = InsertOrReplace(txn, Head(todo))
    /\ todo' = Tail(todo)
    /\ UNCHANGED <<table, runs, phase, prevTable, ret, attempt, wpc, wruns, wlatest>>
    /\ UNCHANGED <<df, daily_data, evaluationsTable, latest_experiments>>

\* cursor.execute raises after the rows inserted so far were committed one by
\* one.
InsertFailCommitted ==
    /\ phase = "storing"
    /\ todo # <<>>
    /\ table' = txn
    /\ txn' = EmptyBag
    /\ phase' = "failed"
    /\ ret' = 0
    /\ UNCHANGED <<runs, prevTable, todo, attempt, wpc, wruns, wlatest>>
    /\ UNCHANGED <<df, daily_data, evaluationsTable, latest_experiments>>

\* cursor.execute raises: the exception leaves store_evaluations before the
\* commit and is caught at line 133; todo keeps the record that failed first
InsertFail ==
    /\ phase = "storing"
    /\ todo # <<>>
    /\ txn' = EmptyBag
    /\ phase' = "failed"
    /\ ret' = 0
    /\ UNCHANGED <<table, runs, prevTable, todo, attempt, wpc, wruns, wlatest>>
    /\ UNCHANGED <<df, daily_data, evaluationsTable, latest_experiments>>

Commit ==
    /\ phase = "storing"
    /\ todo = <<>>
    /\ table' = txn
    /\ txn' = EmptyBag
    /\ phase' = "committed"
    /\ UNCHANGED <<runs, prevTable, ret, todo, attempt, wpc, wruns, wlatest>>
    /\ UNCHANGED <<df, daily_data, evaluationsTable, latest_experiments>>

ReturnCount ==
    /\ phase = "committed"
    /\ phase' = "returned"
    /\ UNCHANGED <<table, runs, prevTable, ret, txn, todo, attempt, wpc, wruns, wlatest>>
    /\ UNCHANGED <<df, daily_data, evaluationsTable, latest_experiments>>

\* The process is killed during the first sync, and the same batch is synced
\* again: the open transaction is rolled back.
Interrupt ==
    /\ attempt = 1
    /\ phase \in {"fetching", "storing", "committed"}
    /\ attempt' = 2
    /\ phase' = "fetching"
    /\ txn' = EmptyBag
    /\ todo' = <<>>
    /\ ret' = 0
    /\ UNCHANGED <<table, runs, prevTable, wpc, wruns, wlatest>>
    /\ UNCHANGED <<df, daily_data, evaluationsTable, latest_experiments>>

\* list_runs, or the iteration over what it returned, raises: the exception
\* is caught at line 133
UpstreamRaise ==
    /\ phase = "fetching"
    /\ phase' = "raised"
    /\ ret' = 0
    /\ UNCHANGED <<table, runs, prevTable, txn, todo, attempt, wpc, wruns, wlatest>>
    /\ UNCHANGED <<df, daily_data, evaluationsTable, latest_experiments>>

NextStep ==
    \/ UpstreamYield(PoolTimed, MaxBatch)
    \/ UpstreamRaise
    \/ Collect
    \/ InsertOk
    \/ InsertFail
    \/ Commit
    \/ ReturnCount
    \/ Interrupt

SpecStep == InitStep /\ [][NextStep]_vars

Winners == CollectLatest(runs, get_latest_timestamp(prevTable), Return(<<>>)).val

\* C9: when one INSERT of store_evaluations fails, the other records of the
\* batch are written and committed.
C9_WriteFailurePerRecord ==
    (phase = "failed" /\ attempt = 1) =>
        \A i \in 1..Len(Winners) :
            Winners[i] # Head(todo) => Winners[i] \in Rows(table)

\* C26: a call that ended by an exception, raised by the fetch, by the
\* classification of a run, by a comparison of timestamps or by an INSERT,
\* returned 0 and left the table as it was before the call.
CollectRaised ==
    CollectLatest(runs, get_latest_timestamp(prevTable), Return(<<>>)).raised

C10_InterruptAndResume ==
    (attempt = 2 /\ phase = "returned") =>
        table = fetch_and_store_latest_data(prevTable, runs).table
----------------------------------------------------------------------------
(* simple_sync.sync_data: no dedup, no guard, one INSERT OR REPLACE per    *)
(* run in batch order, each in its own try/except, one commit at the end.  *)

ClassifySimple(run) ==
    LET date_str == extract_date_from_experiment(run.experiment)
        ticket_id == extract_ticket_id(run)
        ticket_type ==
            IF KeyHasManagement(run.key)
                  \/ (run.comment \notin {Null, ""} /\ LowerHasManagement(run.comment))
            THEN "management" ELSE "homeowner"
    IN  IF run.experiment = NoLabel THEN Skip
        ELSE IF date_str = NoDate THEN Skip
        ELSE IF run.name # EVALUATOR \/ run.outputs = "none" THEN Skip
        ELSE IF run.outputs \in {"badjson", "other"} THEN Skip
        ELSE IF run.outputs = "jsonlist" THEN Raised        \* list.get: AttributeError
        ELSE IF ticket_id = NoTicket THEN Skip
        ELSE IF run.key = Null THEN Raised                  \* "..." in None: TypeError
        ELSE Cand(Row(date_str, ticket_id, ticket_type, run.quality, run.comment,
                      run.key, run.experiment, run.start_time))

\* The rows the loop hands to cursor.execute, in order; raised when an
\* exception leaves the loop (nothing is committed then).
RECURSIVE SimpleInserts(_, _)
SimpleInserts(batch, acc) ==
    IF acc.raised \/ batch = <<>> THEN acc
    ELSE LET c == ClassifySimple(Head(batch))
         IN  SimpleInserts(Tail(batch),
                 IF c.tag = "skip" THEN acc
                 ELSE IF c.tag = "raise" THEN Raise
                 ELSE Return(Append(acc.val, c.row)))

\* The INSERTs at the positions in failed raise and are passed over.
RECURSIVE InsertAll(_, _, _, _)
InsertAll(t, rows, failed, i) ==
    IF i > Len(rows) THEN t
    ELSE InsertAll(IF i \in failed THEN t ELSE InsertOrReplace(t, rows[i]),
                   rows, failed, i + 1)

sync_data(t, batch, failed) ==
    LET inserts == SimpleInserts(batch, Return(<<>>))
    IN  IF inserts.raised THEN t ELSE InsertAll(t, inserts.val, failed, 1)

----------------------------------------------------------------------------
(* sync_grouped_evaluations.sync_grouped_runs *)

TICKET_ID_BASE == 1000000

\* The segments that occur in dates, in the order of Python's str comparison.
SegOrder == <<"07", "08", "13", "14", "15", "20", "2024", "2025", "45", "a1", "b2", "c3">>

SegRank(s) ==
    LET hits == {i \in 1..Len(SegOrder) : SegOrder[i] = s}
    IN  IF hits = {} THEN 0 ELSE CHOOSE i \in hits : TRUE

\* d1 < d2 as strings ('-' sorts before every digit and letter)
DateLess(d1, d2) ==
    \/ SegRank(d1[1]) < SegRank(d2[1])
    \/ d1[1] = d2[1] /\ SegRank(d1[2]) < SegRank(d2[2])
    \/ d1[1] = d2[1] /\ d1[2] = d2[2] /\ SegRank(d1[3]) < SegRank(d2[3])

GroupedType(experiment) ==
    IF Contains(experiment, IMPLEMENTATION) THEN "implementation"
    ELSE IF Contains(experiment, HOMEOWNER_PAY) THEN "homeowner"
    ELSE IF Contains(experiment, MANAGEMENT_PAY) THEN "management"
    ELSE Null

\* experiment.split('-')[3:6], joined again when it has three parts
GroupedDate(experiment) ==
    IF Len(experiment) >= 6 THEN SubSeq(experiment, 4, 6) ELSE NoDate

\* first pass: the runs entered in experiments_by_date
InFirstPass(run) ==
    /\ run.outputs # "none"
    /\ run.name = EVALUATOR
    /\ run.experiment # NoLabel
    /\ GroupedType(run.experiment) # Null
    /\ GroupedDate(run.experiment) # NoDate

\* runs_for_type.sort(key=start_time or datetime.min, reverse=True)[0]: the
\* sort is stable, the first run with the greatest start_time comes first
LatestExperiment(batch, date, exp_type) ==
    LET of == SelectSeq(batch, LAMBDA r : /\ InFirstPass(r)
                                          /\ GroupedDate(r.experiment) = date
                                          /\ GroupedType(r.experiment) = exp_type)
        top == Max({of[i].start_time : i \in 1..Len(of)})
        first == CHOOSE i \in 1..Len(of) :
                    /\ of[i].start_time = top
                    /\ \A j \in 1..(i - 1) : of[j].start_time # top
    IN  IF of = <<>> THEN NoLabel ELSE of[first].experiment

ExpTypes == <<"implementation", "homeowner", "management">>

RECURSIVE SortDates(_)
SortDates(dates) ==
    IF dates = {} THEN <<>>
    ELSE LET least == CHOOSE d \in dates : \A e \in dates : e = d \/ DateLess(d, e)
         IN  <<least>> \o SortDates(dates \ {least})

\* the (date, type, experiment) triples of latest_experiments in the order the
\* third loop visits them
Targets(batch) ==
    LET dates == SortDates({GroupedDate(batch[i].experiment) :
                                i \in {k \in 1..Len(batch) : InFirstPass(batch[k])}})
        all == [n \in 1..(Len(dates) * 3) |->
                   LET date == dates[((n - 1) \div 3) + 1]
                       exp_type == ExpTypes[((n - 1) % 3) + 1]
                   IN  [date |-> date, exp_type |-> exp_type,
                        experiment |-> LatestExperiment(batch, date, exp_type)]]
    IN  SelectSeq(all, LAMBDA x : x.experiment # NoLabel)

QualityCategory(quality, comment) ==
    IF quality = "copy_paste" THEN "copy_paste"
    ELSE IF quality = "low_quality" THEN "low_quality"
    ELSE IF quality = "high_quality" THEN "high_quality"
    ELSE IF comment = "empty_bot_answer" THEN "skipped"
    ELSE IF comment \notin {Null, ""} /\ comment = "management_company_ticket" THEN "skipped"
    ELSE IF comment \notin {Null, ""} /\ comment = "empty_human_answer" THEN "skipped"
    ELSE "unknown"

\* the runs of one target that reach the INSERT, in batch order
TargetRuns(batch, target) ==
    SelectSeq(batch, LAMBDA r : /\ r.name = EVALUATOR
                                /\ r.outputs \notin {"none", "badjson", "other"}
                                /\ r.experiment = target.experiment)

RECURSIVE GroupedInserts(_, _, _)
GroupedInserts(batch, targets, acc) ==
    IF acc.raised \/ targets = <<>> THEN acc
    ELSE LET target == Head(targets)
             hit == TargetRuns(batch, target)
             rows == [i \in 1..Len(hit) |->
                         Row(target.date, TICKET_ID_BASE + Len(acc.val) + i - 1,
                             target.exp_type,
                             QualityCategory(hit[i].quality, hit[i].comment),
                             hit[i].comment, EVALUATOR, target.experiment,
                             hit[i].start_time)]
         IN  GroupedInserts(batch, Tail(targets),
                 IF \E i \in 1..Len(hit) : hit[i].outputs = "jsonlist"
                 THEN Raise                                 \* list.get: AttributeError
                 ELSE Return(acc.val \o rows))

sync_grouped_runs(t, batch, failed) ==
    LET inserts == GroupedInserts(batch, Targets(batch), Return(<<>>))
    IN  IF inserts.raised THEN t ELSE InsertAll(t, inserts.val, failed, 1)

----------------------------------------------------------------------------
(* TicketDatabase.force_migrate_data: two UPDATEs over the whole table *)

RECURSIVE SumOver(_, _)
SumOver(t, rs) ==
    IF rs = {} THEN 0
    ELSE LET r == CHOOSE x \in rs : TRUE IN t[r] + SumOver(t, rs \ {r})

\* the row an UPDATE ... SET ticket_type = <ticket_type> WHERE evaluation_key =
\* <evaluation_key> makes of a row
Updated(r, evaluation_key, ticket_type) ==
    IF r.evaluation_key = evaluation_key
    THEN [r EXCEPT !.ticket_type = ticket_type] ELSE r

UpdateAll(t, evaluation_key, ticket_type) ==
    [s \in {Updated(r, evaluation_key, ticket_type) : r \in Rows(t)} |->
        SumOver(t, {r \in Rows(t) : Updated(r, evaluation_key, ticket_type) = s})]

force_migrate_data(t) ==
    UpdateAll(UpdateAll(t, "management_ticket_evaluation", "management"),
              "bot_evaluation", "homeowner")

----------------------------------------------------------------------------
(* SpecAll: every operation that writes ticket_evaluations, in any order,  *)
(* each over any batch; phase names the operation that ran last.           *)

\* Two runs of one ticket under a post-cutoff label, and a pre-cutoff run
\* without start_time whose comment names the management.
PoolAll ==
    { BaseRun(1, 1, "high_quality"),
      [BaseRun(1, MaxTime, "low_quality") EXCEPT !.key = "management_ticket_evaluation"],
      [BaseRun(NumTickets, NoTime, "copy_paste") EXCEPT
           !.experiment = LabelPre, !.comment = "Sent to Management office"] }

BatchesAll == SeqsUpTo(PoolAll, MaxBatch)

CallFetch ==
    /\ \E batch \in BatchesAll :
           table' = fetch_and_store_latest_data(table, batch).table
    /\ phase' = "fetch"
    /\ UNCHANGED <<runs, prevTable, ret, txn, todo, attempt, wpc, wruns, wlatest>>
    /\ UNCHANGED <<df, daily_data, evaluationsTable, latest_experiments>>

CallSimpleSync ==
    /\ \E batch \in BatchesAll : \E failed \in SUBSET (1..Len(batch)) :
           table' = sync_data(table, batch, failed)
    /\ phase' = "simple"
    /\ UNCHANGED <<runs, prevTable, ret, txn, todo, attempt, wpc, wruns, wlatest>>
    /\ UNCHANGED <<df, daily_data, evaluationsTable, latest_experiments>>

CallGroupedSync ==
    /\ \E batch \in BatchesAll : \E failed \in SUBSET (1..Len(batch)) :
           table' = sync_grouped_runs(table, batch, failed)
    /\ phase' = "grouped"
    /\ UNCHANGED <<runs, prevTable, ret, txn, todo, attempt, wpc, wruns, wlatest>>
    /\ UNCHANGED <<df, daily_data, evaluationsTable, latest_experiments>>

CallForceMigrate ==
    /\ table' = force_migrate_data(table)
    /\ phase' = "migrate"
    /\ UNCHANGED <<runs, prevTable, ret, txn, todo, attempt, wpc, wruns, wlatest>>
    /\ UNCHANGED <<df, daily_data, evaluationsTable, latest_experiments>>

NextAll ==
    \/ CallFetch
    \/ CallSimpleSync
    \/ CallGroupedSync
    \/ CallForceMigrate

SpecAll == Init /\ [][NextAll]_vars

\* C1: whatever sync operations ran, the table holds at most one row for each
\* (date, ticket_id).
C1_OneRowPerKey ==
    /\ \A r \in Rows(table) : table[r] = 1
    /\ \A r1, r2 \in Rows(table) : SameKey(r1, r2) => r1 = r2

\* C1 witness: rows written by sync_grouped_runs, by a migration and by
\* another sync stand side by side after a grouped sync.
C1_Witness ==
    /\ phase = "grouped"
    /\ BagCardinality(table) >= 4
    /\ \E r \in Rows(table) : r.ticket_id > TICKET_ID_BASE
    /\ \E r \in Rows(table) : /\ r.ticket_id < TICKET_ID_BASE
                              /\ r.evaluation_key = "management_ticket_evaluation"
                              /\ r.ticket_type = "management"
    /\ \E r \in Rows(table) : /\ r.ticket_id < TICKET_ID_BASE
                              /\ r.start_time = NoTime
                              /\ r.comment = "Sent to Management office"
                              /\ r.ticket_type = "homeowner"

----------------------------------------------------------------------------
(* SpecTicket: one call of fetch_and_store_latest_data on an empty store,  *)
(* over runs that carry the ticket id at each place extract_ticket_id      *)
(* probes, or at none.                                                     *)

InputShapes == {"top", "x", "run"}

PoolTicket ==
    { [BaseRun(in, 1, "high_quality") EXCEPT !.in_shape = shape, !.out_tid = out] :
          shape \in InputShapes, in \in {NoTicket, 1}, out \in {NoTicket, NumTickets} }
    \cup
    { [BaseRun(NoTicket, 1, "high_quality") EXCEPT !.in_shape = shape, !.out_tid = out] :
          shape \in {"runbare", "none"}, out \in {NoTicket, NumTickets} }

NextTicket ==
    \/ UpstreamYield(PoolTicket, MaxBatch)
    \/ Fetch

SpecTicket == Init /\ [][NextTicket]_vars

\* The first of the four locations that holds a ticket id, None if none does.
FirstYield(run) ==
    IF run.in_shape \in InputShapes /\ run.in_tid # NoTicket THEN run.in_tid
    ELSE run.out_tid

\* C11: extract_ticket_id returns the value of the first location that yields
\* one, so a run whose ticket id is found at any of the four locations gets a
\* row under that ticket id.
C11_FirstLocationWins ==
    phase = "synced" =>
        \A i \in 1..Len(runs) :
            /\ extract_ticket_id(runs[i]) = FirstYield(runs[i])
            /\ FirstYield(runs[i]) # NoTicket =>
                   \E r \in Rows(table) : r.ticket_id = FirstYield(runs[i])

\* The batch without the runs for which extract_ticket_id yields None.
WithTicket(batch) == SelectSeq(batch, LAMBDA r : extract_ticket_id(r) # NoTicket)

\* C12: a run for which extract_ticket_id yields None is dropped: no row is
\* written for it, the call does not end in the exception handler, and the
\* table and the returned count are those of the batch without such runs,
\* every other run of which has its row.
C12_NoTicketDropped ==
    phase = "synced" =>
        /\ ~CallRaised
        /\ \A r \in Rows(table) : r.ticket_id # NoTicket
        /\ table = fetch_and_store_latest_data(prevTable, WithTicket(runs)).table
        /\ ret = fetch_and_store_latest_data(prevTable, WithTicket(runs)).ret
        /\ \A i \in 1..Len(runs) :
               extract_ticket_id(runs[i]) # NoTicket =>
                   \E r \in Rows(table) : r.ticket_id = extract_ticket_id(runs[i])

\* C12 witness: a batch holding a run without ticket id and a run with one
\* was synced, and the row of the second is in the table.
C12_Witness ==
    /\ phase = "synced"
    /\ \E i, j \in 1..Len(runs) :
           /\ i < j
           /\ extract_ticket_id(runs[i]) = NoTicket
           /\ extract_ticket_id(runs[j]) # NoTicket
    /\ BagCardinality(table) = 1
    /\ ret = 1

----------------------------------------------------------------------------
(* SpecLabel: one call of fetch_and_store_latest_data on an empty store,   *)
(* over runs of every label prefix on both sides of the cutoff, with the   *)
(* evaluation keys and comments the type rules look at.                    *)

Suffix14 == <<"2025", "08", "14", "a1">>
Suffix15 == <<"2025", "08", "15", "b2">>

LabelsIn ==
    { p \o d : p \in {ZENDESK, IMPLEMENTATION, HOMEOWNER_PAY, MANAGEMENT_PAY},
               d \in {Suffix14, Suffix15} }

LabelZendesk2024 == ZENDESK \o <<"2024", "08", "14", "a1">>
LabelInfix == <<"test">> \o IMPLEMENTATION \o Suffix15

LabelsAll == LabelsIn \cup {LabelZendesk2024, LabelInfix, LabelOther}

KeyComments ==
    { <<"management_ticket_evaluation", "fine">>,
      <<"bot_evaluation", "Sent to Management office">>,
      <<"bot_evaluation", "fine">>,
      <<"bot_evaluation", Null>> }

PoolLabel ==
    { [BaseRun(1, 1, "high_quality") EXCEPT
           !.experiment = e, !.key = kc[1], !.comment = kc[2]] :
          e \in LabelsAll, kc \in KeyComments }

NextLabel ==
    \/ UpstreamYield(PoolLabel, MaxBatch)
    \/ Fetch

SpecLabel == Init /\ [][NextLabel]_vars

\* The label begins with the prefix p.
StartsWith(e, p) == ContainsAt(e, p, 1)

\* The pre-cutoff rule set: evaluation key or comment.
PreRule(evaluation_key, comment) ==
    IF evaluation_key = "management_ticket_evaluation"
          \/ comment \in {"management_company_ticket", "Sent to Management office"}
    THEN "management" ELSE "homeowner"

\* The post-cutoff rule set: the type the prefix fixes, Null for other labels.
PrefixType(e) ==
    IF StartsWith(e, IMPLEMENTATION) THEN "implementation"
    ELSE IF StartsWith(e, HOMEOWNER_PAY) THEN "homeowner"
    ELSE IF StartsWith(e, MANAGEMENT_PAY) THEN "management"
    ELSE Null

DateBefore20250815(d) == d \in {<<"2025", "08", "14">>, <<"2024", "08", "14">>}

\* C13: a row whose derived date is before 2025-08-15 (the zendesk label of
\* 2025-08-14 among them) has the type of the key / comment rule; a row dated
\* 2025-08-15 under a post-cutoff prefix (the implementation label of
\* 2025-08-15 among them) has the type of its prefix.
C13_CutoffBoundary ==
    \A r \in Rows(table) :
        /\ DateBefore20250815(r.date) =>
               r.ticket_type = PreRule(r.evaluation_key, r.comment)
        /\ (~DateBefore20250815(r.date) /\ PrefixType(r.experiment_name) # Null) =>
               r.ticket_type = PrefixType(r.experiment_name)

\* C13 witness: the zendesk label of 2025-08-14 was typed by its key, and the
\* implementation label of 2025-08-15 by its prefix in spite of its key.
C13_Witness ==
    /\ phase = "synced"
    /\ \E r \in Rows(table) : /\ r.experiment_name = LabelPre
                              /\ r.evaluation_key = "management_ticket_evaluation"
                              /\ r.ticket_type = "management"
    /\ \E r \in Rows(table) : /\ r.experiment_name = LabelPost
                              /\ r.evaluation_key = "management_ticket_evaluation"
                              /\ r.ticket_type = "implementation"

\* C14: a row stored under a label with prefix implementation-evaluation-,
\* homeowner-pay-evaluation- or management-pay-evaluation- has the type of
\* the prefix, whatever its date, evaluation key and comment.
C14_TypeFixedByPrefix ==
    \A r \in Rows(table) :
        PrefixType(r.experiment_name) # Null =>
            r.ticket_type = PrefixType(r.experiment_name)

\* A run on its own in the batch whose label yields a date.
AloneWithDate(e) ==
    /\ Len(runs) = 1
    /\ runs[1].experiment = e
    /\ extract_date_from_experiment(e) # NoDate

\* C15: under a zendesk-evaluation- label the stored type is management when
\* the key is management_ticket_evaluation or the comment contains
\* management, homeowner otherwise, whatever the date; a run without comment
\* is stored as well.
C15_PreCutoffHinting ==
    /\ \A r \in Rows(table) :
           StartsWith(r.experiment_name, ZENDESK) =>
               r.ticket_type = PreRule(r.evaluation_key, r.comment)
    /\ \A e \in LabelsAll :
           (phase = "synced" /\ StartsWith(e, ZENDESK) /\ AloneWithDate(e)) =>
               \E r \in Rows(table) : r.experiment_name = e

\* The label begins with one of the four prefixes followed by a date.
BeginsWithPrefixDate(e) ==
    \E p \in {ZENDESK, IMPLEMENTATION, HOMEOWNER_PAY, MANAGEMENT_PAY} :
        DateMatchAt(e, p, 1)

\* C20: only a label that begins with one of the four prefixes followed by a
\* date is classified; for every other label extract_date_from_experiment
\* returns None and no row is written.
C20_OnlyPrefixedLabels ==
    /\ \A r \in Rows(table) : BeginsWithPrefixDate(r.experiment_name)
    /\ phase = "synced" =>
           \A i \in 1..Len(runs) :
               ~BeginsWithPrefixDate(runs[i].experiment) =>
                   extract_date_from_experiment(runs[i].experiment) = NoDate

----------------------------------------------------------------------------
(* SpecQuality: one sync of an empty store by fetch_and_store_latest_data, *)
(* sync_data or sync_grouped_runs, over runs of one experiment whose       *)
(* quality is a known tag, an unknown tag or absent, with and without a    *)
(* comment that asks for a skip.                                           *)

PoolQuality ==
    { [BaseRun(1, 1, quality) EXCEPT !.comment = comment] :
          quality \in {"copy_paste", "medium_quality", Null},
          comment \in {"fine", "empty_bot_answer", Null} }

SimpleSync ==
    /\ phase = "fetching"
    /\ \E failed \in SUBSET (1..Len(runs)) : table' = sync_data(table, runs, failed)
    /\ prevTable' = table
    /\ phase' = "simple"
    /\ UNCHANGED <<runs, ret, txn, todo, attempt, wpc, wruns, wlatest>>
    /\ UNCHANGED <<df, daily_data, evaluationsTable, latest_experiments>>

GroupedSync ==
    /\ phase = "fetching"
    /\ \E failed \in SUBSET (1..Len(runs)) :
           table' = sync_grouped_runs(table, runs, failed)
    /\ prevTable' = table
    /\ phase' = "grouped"
    /\ UNCHANGED <<runs, ret, txn, todo, attempt, wpc, wruns, wlatest>>
    /\ UNCHANGED <<df, daily_data, evaluationsTable, latest_experiments>>

NextQuality ==
    \/ UpstreamYield(PoolQuality, MaxBatch)
    \/ Fetch
    \/ SimpleSync
    \/ GroupedSync

SpecQuality == Init /\ [][NextQuality]_vars

\* The comment asks for a skip.
SkipComment(comment) ==
    comment \in {"empty_bot_answer", "management_company_ticket", "empty_human_answer"}

QualityTags == {"high_quality", "low_quality", "copy_paste"}

\* The rows sync_grouped_runs wrote for the i-th run of the batch (the runs
\* of PoolQuality belong to one experiment and are numbered in batch order).
GroupedRowsOf(i) == {r \in Rows(table) : r.ticket_id = TICKET_ID_BASE + i - 1}

\* C16: a run whose comment asks for a skip is stored by sync_grouped_runs
\* with quality skipped, whatever its quality tag.
C16_SkipPrecedence ==
    phase = "grouped" =>
        \A i \in 1..Len(runs) : \A r \in GroupedRowsOf(i) :
            SkipComment(runs[i].comment) => r.quality = "skipped"

\* C17: a run without quality whose comment asks for no skip is stored by
\* sync_grouped_runs with null quality; unknown is stored only for a quality
\* tag that is present and not recognized.
C17_NullNotUnknown ==
    phase = "grouped" =>
        \A i \in 1..Len(runs) : \A r \in GroupedRowsOf(i) :
            /\ (runs[i].quality = Null /\ ~SkipComment(runs[i].comment)) =>
                   r.quality = Null
            /\ r.quality = "unknown" =>
                   (runs[i].quality # Null /\ runs[i].quality \notin QualityTags)

\* C28: on an empty store fetch_and_store_latest_data leaves the rows that
\* sync_data leaves for the same batch.
C28_SyncPathsAgree ==
    (phase = "synced" /\ prevTable = EmptyBag) =>
        table = sync_data(EmptyBag, runs, {})

\* C18: the quality of every row is high_quality, low_quality, copy_paste,
\* skipped, unknown or null.
C18_QualityDomain ==
    \A r \in Rows(table) :
        r.quality \in QualityTags \cup {"skipped", "unknown", Null}

----------------------------------------------------------------------------
(* Dates of the rows, under SpecAll *)

\* The date has the form YYYY-MM-DD.
IsoDateForm(d) ==
    /\ Len(d) = 3
    /\ d[1] \in D4
    /\ d[2] \in D2
    /\ d[3] \in D2

\* C19: every row written by fetch_and_store_latest_data, sync_data or
\* sync_grouped_runs has a date of the form YYYY-MM-DD, the one its experiment
\* label holds.
C19_DateForm ==
    \A r \in Rows(table) :
        /\ IsoDateForm(r.date)
        /\ r.date = extract_date_from_experiment(r.experiment_name)

----------------------------------------------------------------------------
(* SpecLatest: one call of fetch_and_store_latest_data on an empty store   *)
(* over runs of two implementation labels of the same date.                *)

LabelOlder == <<"implementation", "evaluation", "2025", "08", "15", "a1">>

PoolLatest ==
    { [BaseRun(k, t, "high_quality") EXCEPT !.experiment = e] :
          k \in Tickets, t \in 1..MaxTime, e \in {LabelOlder, LabelPost} }

NextLatest ==
    \/ UpstreamYield(PoolLatest, MaxBatch)
    \/ Fetch

SpecLatest == Init /\ [][NextLatest]_vars

\* When the runs of the label started: the start_time of its latest run.
LabelStart(batch, label) ==
    Max({batch[i].start_time : i \in {j \in 1..Len(batch) : batch[j].experiment = label}})

\* The labels of the batch that have the date and the type of the row.
LabelsLike(batch, row) ==
    { batch[i].experiment : i \in {j \in 1..Len(batch) :
          /\ Eligible(batch[j])
          /\ RowOf(batch[j]).date = row.date
          /\ RowOf(batch[j]).ticket_type = row.ticket_type} }

\* C21: every row stored by the call carries the most recently started label
\* of its date and type; no ticket of an older label is written.
C21_LatestLabelOnly ==
    phase = "synced" =>
        \A r \in Rows(table) : \A e \in LabelsLike(runs, r) :
            LabelStart(runs, e) <= LabelStart(runs, r.experiment_name)

----------------------------------------------------------------------------
(* SpecGrouped: successive invocations of sync_grouped_runs on one         *)
(* database, each with the run list it was given.                          *)

LabelHomeownerOlder == HOMEOWNER_PAY \o <<"2025", "08", "15", "a1">>
LabelHomeownerLater == HOMEOWNER_PAY \o <<"2025", "08", "15", "b2">>

PoolGrouped ==
    { [BaseRun(1, t, "high_quality") EXCEPT !.experiment = e] :
          t \in 1..MaxTime, e \in {LabelHomeownerOlder, LabelHomeownerLater} }

\* the script ends; a later run of it gets another run list
NextInvocation ==
    /\ phase = "grouped"
    /\ phase' = "fetching"
    /\ runs' = <<>>
    /\ UNCHANGED <<table, prevTable, ret, txn, todo, attempt, wpc, wruns, wlatest>>
    /\ UNCHANGED <<df, daily_data, evaluationsTable, latest_experiments>>

NextGrouped ==
    \/ UpstreamYield(PoolGrouped, MaxBatch)
    \/ GroupedSync
    \/ NextInvocation

SpecGrouped == Init /\ [][NextGrouped]_vars

\* C22: after an invocation of sync_grouped_runs, the rows of one date and
\* ticket type all carry one experiment label, and when the last invocation
\* had runs of that date and type it is the most recently started label of
\* that invocation.
C22_OneLabelPerDateType ==
    phase = "grouped" =>
        /\ \A r, q \in Rows(table) :
              (r.date = q.date /\ r.ticket_type = q.ticket_type) =>
                  r.experiment_name = q.experiment_name
        /\ \A r \in Rows(table) : \A n \in 1..Len(Targets(runs)) :
              LET target == Targets(runs)[n]
              IN  (target.date = r.date /\ target.exp_type = r.ticket_type) =>
                      r.experiment_name = target.experiment

----------------------------------------------------------------------------
(* Lifetime of the rows, under SpecAll *)

\* C23: no sync and no migration deletes a record: every (date, ticket_id)
\* stored before an operation is stored after it, and the number of rows does
\* not decrease.
C23_NeverDeleted ==
    [][/\ \A r \in Rows(table) : \E q \in Rows(table') : SameKey(r, q)
       /\ BagCardinality(table') >= BagCardinality(table)]_vars

\* C23 witness: a migration has rewritten a row that a sync had stored as an
\* implementation ticket, next to other rows.
C23_Witness ==
    /\ phase = "migrate"
    /\ BagCardinality(table) >= 3
    /\ \E r \in Rows(table) :
          r.experiment_name = LabelPost /\ r.ticket_type = "homeowner"

----------------------------------------------------------------------------
(* TicketDatabase.process_dataframe: the daily aggregates of the report *)

\* one entry of daily_data as the first loop creates it (the constant fields
\* date and experiment_name are left out)
NewDayData ==
    [copy_paste_count |-> 0, low_quality_count |-> 0, skipped_count |-> 0,
     management_company_ticket_count |-> 0, implementation_ticket_count |-> 0,
     total_evaluated |-> 0, total_tickets |-> 0, low_quality_tickets |-> <<>>]

\* word in comment; a comment that is None has no "in" and raises TypeError.
\* The comments of the rows below hold a word only by being equal to it.
CommentHas(comment, word) == comment = word

\* the quality branches that end both process_*_ticket functions
CountQuality(day_data, quality, ticket_id) ==
    IF quality = "copy_paste"
    THEN [day_data EXCEPT !.copy_paste_count = @ + 1]
    ELSE IF quality = "low_quality"
    THEN [day_data EXCEPT !.low_quality_count = @ + 1,
                          !.low_quality_tickets = Append(@, ticket_id)]
    ELSE day_data

process_ungrouped_ticket(day_data, ticket_type, quality, comment, ticket_id, evaluation_key) ==
    IF ticket_type = "management" \/ evaluation_key = "management_ticket_evaluation"
    THEN [raised |-> FALSE,
          day |-> [day_data EXCEPT !.management_company_ticket_count = @ + 1]]
    ELSE IF evaluation_key = "bot_evaluation"
    THEN IF comment = "empty_bot_answer"
         THEN [raised |-> FALSE, day |-> [day_data EXCEPT !.skipped_count = @ + 1]]
         ELSE [raised |-> FALSE,
               day |-> CountQuality([day_data EXCEPT !.total_evaluated = @ + 1],
                                    quality, ticket_id)]
    ELSE [raised |-> FALSE, day |-> day_data]

\* process_grouped_ticket without its first statement.
process_grouped_ticket_uncounted(day_data, ticket_type, quality, comment, ticket_id) ==
    IF comment = Null THEN [raised |-> TRUE, day |-> day_data]
    ELSE [raised |-> FALSE, day |-> CountQuality(day_data, quality, ticket_id)]

process_grouped_ticket(day_data, ticket_type, quality, comment, ticket_id) ==
    LET counted == [day_data EXCEPT !.total_evaluated = @ + 1]
        typed == IF ticket_type = "implementation"
                 THEN [counted EXCEPT !.implementation_ticket_count = @ + 1]
                 ELSE IF ticket_type = "management"
                 THEN [counted EXCEPT !.management_company_ticket_count = @ + 1]
                 ELSE counted
    IN  IF comment = "empty_bot_answer"
        THEN [raised |-> FALSE, day |-> [typed EXCEPT !.skipped_count = @ + 1]]
        ELSE IF comment = Null
        THEN [raised |-> TRUE, day |-> typed]               \* TypeError at line 353
        ELSE IF \/ CommentHas(comment, "management_company_ticket")
                \/ CommentHas(comment, "empty_human_answer")
        THEN [raised |-> FALSE, day |-> [typed EXCEPT !.skipped_count = @ + 1]]
        ELSE [raised |-> FALSE, day |-> CountQuality(typed, quality, ticket_id)]

\* the body of the second loop for a row whose date is a key of daily_data
ProcessTicket(day_data, row) ==
    LET ticketed == [day_data EXCEPT !.total_tickets = @ + 1]
    IN  IF BeforeCutoff(row.date)
        THEN process_ungrouped_ticket(ticketed, row.ticket_type, row.quality,
                                      row.comment, row.ticket_id, row.evaluation_key)
        ELSE process_grouped_ticket(ticketed, row.ticket_type, row.quality,
                                    row.comment, row.ticket_id)

----------------------------------------------------------------------------
(* SpecReport: process_dataframe row by row over the days 2025-08-14 and   *)
(* 2025-08-15, on rows of these days and of the day before.                *)

ReportDays == {<<"2025", "08", "14">>, <<"2025", "08", "15">>}
DayBefore == <<"2025", "08", "13">>

TypeKeys ==
    { <<"homeowner", "bot_evaluation">>, <<"homeowner", "">>,
      <<"management", "management_ticket_evaluation">>,
      <<"implementation", "bot_evaluation">> }

QualityComments ==
    { <<"copy_paste", "fine">>, <<"low_quality", "fine">>,
      <<"copy_paste", "empty_bot_answer">>, <<"low_quality", "empty_human_answer">>,
      <<"high_quality", Null>> }

PoolReport ==
    { r \in { Row(d, 1, tk[1], qc[1], qc[2], tk[2], NoLabel, NoTime) :
                  d \in ReportDays, tk \in TypeKeys, qc \in QualityComments } :
          r.ticket_type = "implementation" => ~BeforeCutoff(r.date) }
      \cup { Row(DayBefore, 1, "homeowner", "low_quality", "fine", "bot_evaluation",
                 NoLabel, NoTime) }

InitReport ==
    /\ df \in SeqsUpTo(PoolReport, MaxBatch)
    /\ daily_data = [d \in ReportDays |-> NewDayData]
    /\ phase = "processing"
    /\ table = EmptyBag /\ prevTable = EmptyBag /\ runs = <<>> /\ ret = 0
    /\ txn = EmptyBag /\ todo = <<>> /\ attempt = 1
    /\ wpc = [w \in Writers |-> "idle"]
    /\ wruns = [w \in Writers |-> <<>>]
    /\ wlatest = [w \in Writers |-> NoTime]
    /\ evaluationsTable = EmptyBag
    /\ latest_experiments = EmptyBag

\* one iteration of "for _, row in df.iterrows()"
ProcessRow ==
    /\ phase = "processing"
    /\ df # <<>>
    /\ df' = Tail(df)
    /\ LET row == Head(df)
       IN  IF row.date \in DOMAIN daily_data
           THEN LET out == ProcessTicket(daily_data[row.date], row)
                IN  /\ daily_data' = [daily_data EXCEPT ![row.date] = out.day]
                    /\ phase' = IF out.raised THEN "raised" ELSE phase
           ELSE UNCHANGED <<daily_data, phase>>
    /\ UNCHANGED <<table, runs, prevTable, ret, txn, todo, attempt, wpc, wruns, wlatest>>
    /\ UNCHANGED <<evaluationsTable, latest_experiments>>

\* lines 310-315: the loop is over, daily_data is returned
ReturnReport ==
    /\ phase = "processing"
    /\ df = <<>>
    /\ phase' = "returned"
    /\ UNCHANGED <<table, runs, prevTable, ret, txn, todo, attempt, wpc, wruns, wlatest>>
    /\ UNCHANGED <<df, daily_data, evaluationsTable, latest_experiments>>

NextReport ==
    \/ ProcessRow
    \/ ReturnReport

SpecReport == InitReport /\ [][NextReport]_vars

\* The row is a management record / carries a skip flag.
ManagementRecord(row) ==
    row.ticket_type = "management" \/ row.evaluation_key = "management_ticket_evaluation"

SkipFlagged(row) == SkipComment(row.comment) \/ row.quality = "skipped"

\* C24: a row of a day before 2025-08-15 adds one to total_evaluated of its
\* day exactly when it is neither a management record nor skip-flagged; a row
\* of a later day always adds one.
C24_EvaluatedCounting ==
    [][(df # <<>> /\ df' = Tail(df) /\ Head(df).date \in DOMAIN daily_data) =>
          LET row == Head(df)
              counted == daily_data'[row.date].total_evaluated =
                             daily_data[row.date].total_evaluated + 1
          IN  IF BeforeCutoff(row.date)
              THEN counted <=> (~ManagementRecord(row) /\ ~SkipFlagged(row))
              ELSE counted]_vars

\* C29: on every day copy_paste_count + low_quality_count <= total_evaluated
\* <= total_tickets, and low_quality_tickets has low_quality_count entries.
C29_DailyAggregates ==
    \A d \in DOMAIN daily_data :
        /\ daily_data[d].copy_paste_count + daily_data[d].low_quality_count
               <= daily_data[d].total_evaluated
        /\ daily_data[d].total_evaluated <= daily_data[d].total_tickets
        /\ Len(daily_data[d].low_quality_tickets) = daily_data[d].low_quality_count

\* C29 witness: a returned report with a day that has a low quality ticket and
\* a ticket that was not evaluated.
C29_Witness ==
    /\ phase = "returned"
    /\ \E d \in DOMAIN daily_data :
          /\ daily_data[d].low_quality_count >= 1
          /\ daily_data[d].total_evaluated < daily_data[d].total_tickets

----------------------------------------------------------------------------
(* EvaluationDatabase.fetch_and_sync_data (evaluation_database.py) with its *)
(* two tables.  Neither table has a UNIQUE constraint: the only key is the  *)
(* AUTOINCREMENT id, which no INSERT supplies, so INSERT OR REPLACE never   *)
(* finds a row to replace and adds one.                                     *)

\* The day the start times 1..MaxTime lie in.
TimeDay == <<"2025", "08", "15">>

\* run.start_time.strftime('%Y-%m-%d') if run.start_time else None
DateOfTime(start_time) == IF start_time = NoTime THEN NoDate ELSE TimeDay

\* An Optional result is a sequence: empty for None, else the one record.
extract_evaluation_data(run) ==
    IF run.experiment # NoLabel /\ StartsWith(run.experiment, <<"zendesk">>) THEN <<>>
    ELSE <<[date |-> DateOfTime(run.start_time),
          ticket_id |-> IF run.in_shape = "top" THEN run.in_tid ELSE NoTicket,
          ticket_type |-> Null,
          quality |-> IF run.outputs # "dict" THEN Null
                      ELSE IF run.quality = "copy_paste" THEN "high_quality"
                      ELSE run.quality,
          comment |-> IF run.outputs = "dict" THEN run.comment ELSE Null,
          score |-> Null,
          experiment_name |-> run.experiment,
          run_id |-> run.id,
          start_time |-> run.start_time,
          evaluation_key |-> EVALUATOR]>>

extract_experiment_data(run) ==
    IF run.experiment = NoLabel THEN <<>>
    ELSE IF StartsWith(run.experiment, <<"zendesk">>) THEN <<>>
    ELSE <<[date |-> DateOfTime(run.start_time),
          experiment_type |->
              IF Contains(run.experiment, <<"implementation">>) THEN "implementation"
              ELSE IF Contains(run.experiment, <<"homeowner">>) THEN "homeowner"
              ELSE IF Contains(run.experiment, <<"management">>) THEN "management"
              ELSE Null,
          experiment_name |-> run.experiment,
          start_time |-> run.start_time,
          run_count |-> 1]>>

\* lines 149-154
ExperimentPrefix(exp_name) ==
    IF StartsWith(exp_name, <<"management", "pay">>) THEN "management-pay"
    ELSE IF StartsWith(exp_name, <<"homeowner", "pay">>) THEN "homeowner-pay"
    ELSE IF StartsWith(exp_name, <<"implementation">>) THEN "implementation"
    ELSE Null

\* experiments.sort(key=start_time, reverse=True): stable, latest first
RECURSIVE SortLatestFirst(_)
SortLatestFirst(experiments) ==
    IF experiments = <<>> THEN <<>>
    ELSE LET top == Max({experiments[i].start_time : i \in 1..Len(experiments)})
             first == CHOOSE i \in 1..Len(experiments) :
                         /\ experiments[i].start_time = top
                         /\ \A j \in 1..(i - 1) : experiments[j].start_time # top
         IN  <<experiments[first]>> \o
                 SortLatestFirst(SubSeq(experiments, 1, first - 1) \o
                                 SubSeq(experiments, first + 1, Len(experiments)))

\* The sort compares None with None or with a string: TypeError.
SortRaises(experiments) ==
    /\ Len(experiments) >= 2
    /\ \E i \in 1..Len(experiments) : experiments[i].start_time = NoTime

\* lines 142-162: the first experiment of each prefix, at most three
RECURSIVE KeepPrefixes(_, _, _)
KeepPrefixes(experiments, seen_prefixes, kept_experiments) ==
    IF experiments = <<>> \/ Len(kept_experiments) >= 3 THEN kept_experiments
    ELSE LET prefix == ExperimentPrefix(Head(experiments).experiment_name)
         IN  IF prefix # Null /\ prefix \notin seen_prefixes
             THEN KeepPrefixes(Tail(experiments), seen_prefixes \cup {prefix},
                               Append(kept_experiments, Head(experiments)))
             ELSE KeepPrefixes(Tail(experiments), seen_prefixes, kept_experiments)

RECURSIVE Flatten(_)
Flatten(lists) ==
    IF lists = <<>> THEN <<>> ELSE Head(lists) \o Flatten(Tail(lists))

\* INSERT OR REPLACE of every record of the list: each one is added
RECURSIVE StoreAll(_, _)
StoreAll(t, data) ==
    IF data = <<>> THEN t ELSE StoreAll(t (+) SetToBag({Head(data)}), Tail(data))

\* The whole call: what it returns and the two tables it leaves.  An
\* exception anywhere is caught at line 182; nothing was committed before it,
\* since it is raised by the sort or by the first _store_evaluations (date is
\* NOT NULL in both tables and None for the same runs).
fetch_and_sync_data(evals, latest, batch) ==
    LET used == SelectSeq(batch, LAMBDA r : r.name = EVALUATOR /\ r.outputs # "none")
        evaluation_data ==
            Flatten([i \in 1..Len(used) |-> extract_evaluation_data(used[i])])
        experiment_data ==
            Flatten([i \in 1..Len(used) |-> extract_experiment_data(used[i])])
        dates == {experiment_data[i].date : i \in 1..Len(experiment_data)}
        OfDate(date) == SelectSeq(experiment_data, LAMBDA d : d.date = date)
        kept == UNION { LET k == KeepPrefixes(SortLatestFirst(OfDate(date)), {}, <<>>)
                        IN  {k[i] : i \in 1..Len(k)} : date \in dates }
        failed == \/ \E date \in dates : SortRaises(OfDate(date))
                  \/ \E i \in 1..Len(evaluation_data) : evaluation_data[i].date = NoDate
    IN  IF failed
        THEN [ret |-> FALSE, evaluations |-> evals, latest_experiments |-> latest]
        ELSE [ret |-> TRUE,
              evaluations |-> StoreAll(evals, evaluation_data),
              latest_experiments |-> latest (+) SetToBag(kept)]

----------------------------------------------------------------------------
(* SpecEval: fetch_and_sync_data over a batch, once and a second time *)

EvalRun(id, experiment, start_time) ==
    [id |-> id, experiment |-> experiment, name |-> EVALUATOR, outputs |-> "dict",
     quality |-> "copy_paste", comment |-> "fine", key |-> "bot_evaluation",
     in_shape |-> "top", in_tid |-> 1, out_tid |-> NoTicket,
     start_time |-> start_time]

\* Every run has its own id.
PoolEval ==
    { EvalRun(1, MANAGEMENT_PAY \o <<"2025", "08", "15", "a1">>, 1),
      EvalRun(2, LabelHomeownerOlder, 1),
      EvalRun(3, LabelHomeownerLater, MaxTime),
      EvalRun(4, LabelPost, MaxTime),
      EvalRun(5, LabelPre, 1),
      EvalRun(6, LabelPost, NoTime) }

FetchAndSync ==
    /\ phase = "fetching"
    /\ LET out == fetch_and_sync_data(evaluationsTable, latest_experiments, runs)
       IN  /\ evaluationsTable' = out.evaluations
           /\ latest_experiments' = out.latest_experiments
           /\ ret' = out.ret
    /\ phase' = "synced"
    /\ UNCHANGED <<table, runs, prevTable, txn, todo, attempt, wpc, wruns, wlatest>>
    /\ UNCHANGED <<df, daily_data>>

SyncAgain ==
    /\ phase = "synced"
    /\ LET out == fetch_and_sync_data(evaluationsTable, latest_experiments, runs)
       IN  /\ evaluationsTable' = out.evaluations
           /\ latest_experiments' = out.latest_experiments
           /\ ret' = out.ret
    /\ phase' = "resynced"
    /\ UNCHANGED <<table, runs, prevTable, txn, todo, attempt, wpc, wruns, wlatest>>
    /\ UNCHANGED <<df, daily_data>>

NextEval ==
    \/ UpstreamYield(PoolEval, MaxBatchOne)
    \/ FetchAndSync
    \/ SyncAgain

SpecEval == Init /\ [][NextEval]_vars

\* C25: the second call over the same runs leaves the evaluations table as
\* one call leaves it, with at most one row for each run_id.
C25_UpsertByKey ==
    phase = "resynced" =>
        /\ evaluationsTable = fetch_and_sync_data(EmptyBag, EmptyBag, runs).evaluations
        /\ \A r \in BagToSet(evaluationsTable) :
              /\ evaluationsTable[r] = 1
              /\ \A q \in BagToSet(evaluationsTable) : q.run_id = r.run_id => q = r

\* C30: latest_experiments holds for each date at most one row of each
\* prefix, the most recently started run of that prefix and date.
C30_LatestPerPrefix ==
    \A r \in BagToSet(latest_experiments) :
        /\ latest_experiments[r] = 1
        /\ \A q \in BagToSet(latest_experiments) :
              (/\ q.date = r.date
               /\ ExperimentPrefix(q.experiment_name) = ExperimentPrefix(r.experiment_name))
                  => q = r
        /\ \A i \in 1..Len(runs) :
              (/\ extract_experiment_data(runs[i]) # <<>>
               /\ DateOfTime(runs[i].start_time) = r.date
               /\ ExperimentPrefix(runs[i].experiment) = ExperimentPrefix(r.experiment_name))
                  => runs[i].start_time <= r.start_time

====
